---- MODULE Spec2Model ----
(***************************************************************************)
(* cargo-dimension: a one-shot command line tool that scaffolds a contract *)
(* package and its tests package under a new destination directory.        *)
(*                                                                         *)
(* The model follows one process invocation: the command line is fixed by  *)
(* Init, ARGS (a Lazy<Args>) is forced by the first statement of main, and *)
(* main then runs its steps in program order.  Every filesystem primitive  *)
(* may succeed or fail; a failure goes through print_error_and_exit.       *)
(*                                                                         *)
(* Text is modelled as TLA+ strings, byte for byte as format! produces it, *)
(* and the properties read it back by splitting it into lines.             *)
(*                                                                         *)
(* Option<T> is a sequence of length 0 (None) or 1 (Some).                 *)
(***************************************************************************)
EXTENDS Naturals, Sequences, FiniteSets, TLC

VARIABLES
    positionals,     \* argv after the program name: the positional words, in order
    workspace_path,  \* Option<String>: the value of --workspace-path
    git_url,         \* Option<String>: the value of --git-url
    git_branch,      \* Option<String>: the value of --git-branch
    pre_exists,      \* the destination path exists before the run
    ARGS,            \* Lazy<Args>: <<>> until forced, then <<Args>>
    pc,              \* position in main
    exit_code,       \* Option<i32>: the process's exit status once it has exited
    created,         \* the destination directory was created by this run
    files,           \* files written by this run: a set of <<path, contents>>
    calls            \* history: the filesystem calls made so far, in order

vars == <<positionals, workspace_path, git_url, git_branch, pre_exists,
          ARGS, pc, exit_code, created, files, calls>>

argv == <<positionals, workspace_path, git_url, git_branch, pre_exists>>

(***************************************************************************)
(* Bounds of the model: how many distinct values each option may take.     *)
(***************************************************************************)
MaxPaths == 2
MaxUrls == 2
MaxBranches == 2

PathPool == <<"/work", "../dimension-node", "/opt/node/", "w">>
UrlPool == <<"https://github.com/dimension-labs/dimension-node", "git@host:fork.git",
             "file:///srv/node", "u">>
BranchPool == <<"dev", "release-1.4.6", "feat/x", "b">>

WorkspacePaths == {PathPool[i] : i \in 1..MaxPaths}
GitUrls == {UrlPool[i] : i \in 1..MaxUrls}
GitBranches == {BranchPool[i] : i \in 1..MaxBranches}

Some(v) == <<v>>
NoneOpt == <<>>
IsSome(o) == Len(o) = 1
Unwrap(o) == o[1]
OptionOf(S) == {NoneOpt} \cup {Some(v) : v \in S}

\* The command lines tried: no target, the cargo-subcommand word alone, a target,
\* the subcommand word and a target, a target called "dimension", two targets.
PositionalLists == { <<>>, <<"dimension">>, <<"proj">>, <<"dimension", "proj">>,
                     <<"dimension", "dimension">>, <<"proj", "extra">> }

FAILURE_EXIT_CODE == 101
\* clap's Error::exit status for a usage error (get_matches_from).
CLAP_USAGE_CODE == 2
\* main returning normally.
EXIT_SUCCESS == 0

(***************************************************************************)
(* common.rs: the dependency registry.                                     *)
(***************************************************************************)
Dependency(name, version) == [name |-> name, version |-> version]

CL_CONTRACT == Dependency("dimension-contract", "1.4.3")
\* Fault: a descriptor registered under another descriptor's name.
CL_TYPES_NameOfContract == Dependency("dimension-contract", "1.4.6")
CL_TYPES == Dependency("dimension-types", "1.4.6")
CL_ENGINE_TEST_SUPPORT == Dependency("dimension-engine-test-support", "2.0.3")
CL_EXECUTION_ENGINE == Dependency("dimension-execution-engine", "1.4.4")

\* The registry, in the order the descriptors are declared.
Registry == <<CL_CONTRACT, CL_TYPES, CL_ENGINE_TEST_SUPPORT, CL_EXECUTION_ENGINE>>

(***************************************************************************)
(* main.rs: DimensionOverrides and Args::new.                              *)
(***************************************************************************)
WorkspacePath(path) == [tag |-> "WorkspacePath", path |-> path]
GitRepo(url, branch) == [tag |-> "GitRepo", url |-> url, branch |-> branch]

\* The enumerate/filter_map over env::args(): the word at index 1 is dropped when
\* it is "dimension".
filtered_args(pos) ==
    IF Len(pos) >= 1 /\ pos[1] = "dimension" THEN Tail(pos) ELSE pos

\* Fault: git-url declared without .requires(GIT_BRANCH_ARG_NAME).
ClapAccepts_UrlWithoutRequires(pos, wp, url, br) ==
    /\ Len(filtered_args(pos)) = 1
    /\ ~(IsSome(url) /\ IsSome(wp))
    /\ ~(IsSome(br) /\ IsSome(wp))
    /\ (IsSome(br) => IsSome(url))

\* clap's validation of the four declared arguments: <path> is required and is the
\* only positional; git-url and git-branch each conflict with workspace-path and
\* require each other.
\* The command lines considered are made of these four arguments; the flags clap
\* generates by itself (--help, --version) are not among them.
ClapAccepts(pos, wp, url, br) ==
    /\ Len(filtered_args(pos)) = 1
    /\ ~(IsSome(url) /\ IsSome(wp))
    /\ ~(IsSome(br) /\ IsSome(wp))
    /\ (IsSome(url) => IsSome(br))
    /\ (IsSome(br) => IsSome(url))

\* Fault: the GitRepo arm built with its two fields exchanged.
dimension_overrides_of_SwappedGit(wp, url, br) ==
    CASE IsSome(wp) /\ ~IsSome(url) /\ ~IsSome(br) ->
            [panic |-> FALSE, value |-> Some(WorkspacePath(Unwrap(wp)))]
      [] ~IsSome(wp) /\ IsSome(url) /\ IsSome(br) ->
            [panic |-> FALSE, value |-> Some(GitRepo(Unwrap(br), Unwrap(url)))]
      [] ~IsSome(wp) /\ ~IsSome(url) /\ ~IsSome(br) ->
            [panic |-> FALSE, value |-> NoneOpt]
      [] OTHER ->
            [panic |-> TRUE, value |-> NoneOpt]

\* The match on (maybe_workspace_path, maybe_git_url, maybe_git_branch).  The last
\* arm is unreachable!(): a panic.
dimension_overrides_of(wp, url, br) ==
    CASE IsSome(wp) /\ ~IsSome(url) /\ ~IsSome(br) ->
            [panic |-> FALSE, value |-> Some(WorkspacePath(Unwrap(wp)))]
      [] ~IsSome(wp) /\ IsSome(url) /\ IsSome(br) ->
            [panic |-> FALSE, value |-> Some(GitRepo(Unwrap(url), Unwrap(br)))]
      [] ~IsSome(wp) /\ ~IsSome(url) /\ ~IsSome(br) ->
            [panic |-> FALSE, value |-> NoneOpt]
      [] OTHER ->
            [panic |-> TRUE, value |-> NoneOpt]

(***************************************************************************)
(* common.rs: PATCH_SECTION, the [patch.crates-io] block of both           *)
(* Cargo.toml files, rendered from ARGS.dimension_overrides().             *)
(***************************************************************************)
\* Fault: the last entry written without its {0} placeholder.
WorkspacePathPatch_Unrooted(path) ==
       "[patch.crates-io]\n"
    \o "dimension-contract = { path = \"" \o path \o "/smart_contracts/contract\" }\n"
    \o "dimension-engine-test-support = { path = \"" \o path
           \o "/execution_engine_testing/test_support\" }\n"
    \o "dimension-execution-engine = { path = \"" \o path \o "/execution_engine\" }\n"
    \o "dimension-types = { path = \"/types\" }\n"

WorkspacePathPatch(path) ==
       "[patch.crates-io]\n"
    \o "dimension-contract = { path = \"" \o path \o "/smart_contracts/contract\" }\n"
    \o "dimension-engine-test-support = { path = \"" \o path
           \o "/execution_engine_testing/test_support\" }\n"
    \o "dimension-execution-engine = { path = \"" \o path \o "/execution_engine\" }\n"
    \o "dimension-types = { path = \"" \o path \o "/types\" }\n"

\* Fault: one entry with the placeholders {0} and {1} exchanged.
GitRepoPatch_SwappedPlaceholders(url, branch) ==
       "[patch.crates-io]\n"
    \o "dimension-contract = { git = \"" \o url \o "\", branch = \"" \o branch \o "\" }\n"
    \o "dimension-engine-test-support = { git = \"" \o branch \o "\", branch = \""
           \o url \o "\" }\n"
    \o "dimension-execution-engine = { git = \"" \o url \o "\", branch = \""
           \o branch \o "\" }\n"
    \o "dimension-types = { git = \"" \o url \o "\", branch = \"" \o branch \o "\" }\n"

\* Fault: the entries written in the order of the statics above.
GitRepoPatch_DeclarationOrder(url, branch) ==
       "[patch.crates-io]\n"
    \o "dimension-contract = { git = \"" \o url \o "\", branch = \"" \o branch \o "\" }\n"
    \o "dimension-types = { git = \"" \o url \o "\", branch = \"" \o branch \o "\" }\n"
    \o "dimension-engine-test-support = { git = \"" \o url \o "\", branch = \""
           \o branch \o "\" }\n"
    \o "dimension-execution-engine = { git = \"" \o url \o "\", branch = \""
           \o branch \o "\" }\n"

GitRepoPatch(url, branch) ==
       "[patch.crates-io]\n"
    \o "dimension-contract = { git = \"" \o url \o "\", branch = \"" \o branch \o "\" }\n"
    \o "dimension-engine-test-support = { git = \"" \o url \o "\", branch = \""
           \o branch \o "\" }\n"
    \o "dimension-execution-engine = { git = \"" \o url \o "\", branch = \""
           \o branch \o "\" }\n"
    \o "dimension-types = { git = \"" \o url \o "\", branch = \"" \o branch \o "\" }\n"

\* Fault: the None arm emitting the section header.
PATCH_SECTION_HeaderForNone(overrides) ==
    IF ~IsSome(overrides) THEN "[patch.crates-io]\n"
    ELSE IF Unwrap(overrides).tag = "WorkspacePath"
         THEN WorkspacePathPatch(Unwrap(overrides).path)
         ELSE GitRepoPatch(Unwrap(overrides).url, Unwrap(overrides).branch)

PATCH_SECTION(overrides) ==
    IF ~IsSome(overrides) THEN ""
    ELSE IF Unwrap(overrides).tag = "WorkspacePath"
         THEN WorkspacePathPatch(Unwrap(overrides).path)
         ELSE GitRepoPatch(Unwrap(overrides).url, Unwrap(overrides).branch)

(***************************************************************************)
(* The manifest composer (contract_package, tests_package, dependency):    *)
(* identity section, one declaration line per needed dependency with its   *)
(* registered name and version, then the override block verbatim.          *)
(***************************************************************************)
\* Indices into Registry of the dependencies each package declares.
ContractNeeded == <<1, 2, 4>>
TestsNeeded == <<1, 2, 3, 4>>

DeclarationLine(dep) == dep.name \o " = \"" \o dep.version \o "\"\n"

RECURSIVE DeclarationBlock(_)
DeclarationBlock(needed) ==
    IF needed = <<>> THEN ""
    ELSE DeclarationLine(Registry[Head(needed)]) \o DeclarationBlock(Tail(needed))

compose(package_name, needed, override_block) ==
       "[package]\nname = \"" \o package_name \o "\"\nversion = \"0.1.0\"\n\n"
    \o "[dependencies]\n"
    \o DeclarationBlock(needed)
    \o override_block

ContractManifest(overrides) == compose("contract", ContractNeeded, PATCH_SECTION(overrides))
TestsManifest(overrides) == compose("tests", TestsNeeded, PATCH_SECTION(overrides))

CONTRACT_TOML == "contract/Cargo.toml"
TESTS_TOML == "tests/Cargo.toml"
\* rust_toolchain.rs
FILENAME == "rust-toolchain"
CONTENTS == "<resources/rust-toolchain.in>"
MAKEFILE == "Makefile"
MAKEFILE_CONTENTS == "prepare:\ntest:\n"
TRAVIS_YML == ".travis.yml"
TRAVIS_CONTENTS == "language: rust\n"

(***************************************************************************)
(* common.rs: the filesystem primitives.  ok is the outcome of the         *)
(* underlying fs call; after is the position main continues at.            *)
(***************************************************************************)
root_exists == pre_exists \/ created

print_error_and_exit ==
    /\ pc' = "exited"
    /\ exit_code' = Some(FAILURE_EXIT_CODE)

\* Fault: the error of fs::create_dir_all dropped.
create_dir_all_ErrorIgnored(ok, after) ==
    /\ calls' = Append(calls, [op |-> "create_dir_all", path |-> "", ok |-> ok])
    /\ UNCHANGED <<files, exit_code>>
    /\ created' = ok
    /\ pc' = after

create_dir_all(ok, after) ==
    /\ calls' = Append(calls, [op |-> "create_dir_all", path |-> "", ok |-> ok])
    /\ UNCHANGED files
    /\ IF ok
       THEN /\ created' = TRUE
            /\ pc' = after
            /\ UNCHANGED exit_code
       ELSE /\ print_error_and_exit
            /\ UNCHANGED created

\* Fault: the error of fs::write dropped.
write_file_ErrorIgnored(path, contents, ok, after) ==
    /\ calls' = Append(calls, [op |-> "write_file", path |-> path, ok |-> ok])
    /\ UNCHANGED <<created, exit_code>>
    /\ files' = IF ok THEN {f \in files : f[1] # path} \cup {<<path, contents>>} ELSE files
    /\ pc' = after

write_file(path, contents, ok, after) ==
    /\ calls' = Append(calls, [op |-> "write_file", path |-> path, ok |-> ok])
    /\ UNCHANGED created
    /\ IF ok
       THEN /\ files' = {f \in files : f[1] # path} \cup {<<path, contents>>}
            /\ pc' = after
            /\ UNCHANGED exit_code
       ELSE /\ print_error_and_exit
            /\ UNCHANGED files

\* fs::write cannot succeed in a directory that does not exist.
WriteOutcomes == IF root_exists THEN BOOLEAN ELSE {FALSE}

(***************************************************************************)
(* The run.                                                                *)
(***************************************************************************)
Init ==
    /\ positionals \in PositionalLists
    /\ workspace_path \in OptionOf(WorkspacePaths)
    /\ git_url \in OptionOf(GitUrls)
    /\ git_branch \in OptionOf(GitBranches)
    /\ pre_exists \in BOOLEAN
    /\ ARGS = NoneOpt
    /\ pc = "start"
    /\ exit_code = NoneOpt
    /\ created = FALSE
    /\ files = {}
    /\ calls = <<>>

\* main's first use of ARGS forces Lazy::new(Args::new): clap parses and validates
\* (and exits the process on a usage error), then the overrides are matched.
ArgsNew ==
    /\ pc = "start"
    /\ UNCHANGED <<argv, created, files, calls>>
    /\ IF ~ClapAccepts(positionals, workspace_path, git_url, git_branch)
       THEN /\ pc' = "exited"
            /\ exit_code' = Some(CLAP_USAGE_CODE)
            /\ UNCHANGED ARGS
       ELSE LET m == dimension_overrides_of(workspace_path, git_url, git_branch) IN
            IF m.panic
            THEN /\ pc' = "panicked"
                 /\ exit_code' = Some(FAILURE_EXIT_CODE)
                 /\ UNCHANGED ARGS
            ELSE /\ ARGS' = Some([root_path |-> filtered_args(positionals)[1],
                                  dimension_overrides |-> m.value])
                 /\ pc' = "check_exists"
                 /\ UNCHANGED exit_code

\* Fault: main without its existence check.
MainCheckExists_Skipped ==
    /\ pc = "check_exists"
    /\ UNCHANGED <<argv, ARGS, created, files, calls, exit_code>>
    /\ pc' = "create_dir"

\* if ARGS.root_path().exists() { print_error_and_exit(..) }
MainCheckExists ==
    /\ pc = "check_exists"
    /\ UNCHANGED <<argv, ARGS, created, files, calls>>
    /\ IF root_exists
       THEN print_error_and_exit
       ELSE pc' = "create_dir" /\ UNCHANGED exit_code

\* common::create_dir_all(ARGS.root_path())
MainCreateDir ==
    /\ pc = "create_dir"
    /\ UNCHANGED <<argv, ARGS>>
    /\ \E ok \in BOOLEAN : create_dir_all(ok, "contract_package")

ContractPackageCreate ==
    /\ pc = "contract_package"
    /\ UNCHANGED <<argv, ARGS>>
    /\ \E ok \in WriteOutcomes :
          write_file(CONTRACT_TOML, ContractManifest(Unwrap(ARGS).dimension_overrides),
                     ok, "tests_package")

TestsPackageCreate ==
    /\ pc = "tests_package"
    /\ UNCHANGED <<argv, ARGS>>
    /\ \E ok \in WriteOutcomes :
          write_file(TESTS_TOML, TestsManifest(Unwrap(ARGS).dimension_overrides),
                     ok, "rust_toolchain")

RustToolchainCreate ==
    /\ pc = "rust_toolchain"
    /\ UNCHANGED <<argv, ARGS>>
    /\ \E ok \in WriteOutcomes : write_file(FILENAME, CONTENTS, ok, "makefile")

MakefileCreate ==
    /\ pc = "makefile"
    /\ UNCHANGED <<argv, ARGS>>
    /\ \E ok \in WriteOutcomes : write_file(MAKEFILE, MAKEFILE_CONTENTS, ok, "travis_yml")

TravisYmlCreate ==
    /\ pc = "travis_yml"
    /\ UNCHANGED <<argv, ARGS>>
    /\ \E ok \in WriteOutcomes : write_file(TRAVIS_YML, TRAVIS_CONTENTS, ok, "return")

\* main returns: the process exits with status 0.
MainReturn ==
    /\ pc = "return"
    /\ pc' = "exited"
    /\ exit_code' = Some(EXIT_SUCCESS)
    /\ UNCHANGED <<argv, ARGS, created, files, calls>>

Next ==
    \/ ArgsNew
    \/ MainCheckExists
    \/ MainCreateDir
    \/ ContractPackageCreate
    \/ TestsPackageCreate
    \/ RustToolchainCreate
    \/ MakefileCreate
    \/ TravisYmlCreate
    \/ MainReturn

Spec == Init /\ [][Next]_vars

(***************************************************************************)
(* Reading text back: what a reader of the generated files sees.           *)
(***************************************************************************)
\* The lowest index at which sub occurs in s, or 0.
Find(s, sub) ==
    LET hits == {i \in 1..(Len(s) - Len(sub) + 1) : SubSeq(s, i, i + Len(sub) - 1) = sub}
    IN IF hits = {} THEN 0 ELSE CHOOSE i \in hits : \A j \in hits : i <= j

Contains(s, sub) == Find(s, sub) # 0
StartsWith(s, pre) == Len(pre) <= Len(s) /\ SubSeq(s, 1, Len(pre)) = pre
EndsWith(s, suf) == Len(suf) <= Len(s) /\ SubSeq(s, Len(s) - Len(suf) + 1, Len(s)) = suf

\* The text after the first occurrence of sub ("" when there is none).
After(s, sub) ==
    LET i == Find(s, sub) IN IF i = 0 THEN "" ELSE SubSeq(s, i + Len(sub), Len(s))
\* The text before the first occurrence of sub (all of s when there is none).
Before(s, sub) ==
    LET i == Find(s, sub) IN IF i = 0 THEN s ELSE SubSeq(s, 1, i - 1)

\* The lines of a text, without their terminators.
Lines(s) ==
    LET ends == {i \in 1..Len(s) : SubSeq(s, i, i) = "\n"}
        \* the k-th line terminator
        end(k) == CHOOSE i \in ends : Cardinality({j \in ends : j < i}) = k - 1
        n == Cardinality(ends)
        start(k) == IF k = 1 THEN 1 ELSE end(k - 1) + 1
        terminated == [k \in 1..n |-> SubSeq(s, start(k), end(k) - 1)]
    IN IF start(n + 1) <= Len(s)
       THEN Append(terminated, SubSeq(s, start(n + 1), Len(s)))
       ELSE terminated

Range(seq) == {seq[i] : i \in 1..Len(seq)}

\* The lines of the section of a manifest that header opens: those after the header
\* line up to the next blank line or section header.
SectionLines(text, header) ==
    LET ls == Lines(text)
        hs == {i \in 1..Len(ls) : ls[i] = header}
    IN IF hs = {} THEN <<>>
       ELSE LET h == CHOOSE i \in hs : \A j \in hs : i <= j
                stops == {j \in (h + 1)..Len(ls) : ls[j] = "" \/ StartsWith(ls[j], "[")}
                stop == IF stops = {} THEN Len(ls) + 1
                        ELSE CHOOSE j \in stops : \A k \in stops : j <= k
            IN SubSeq(ls, h + 1, stop - 1)

PATCH_HEADER == "[patch.crates-io]"
DEPENDENCIES_HEADER == "[dependencies]"

\* A declaration line is  name = value.
EntryName(line) == Before(line, " = ")
EntryValue(line) == After(line, " = ")
EntryNames(ls) == [i \in 1..Len(ls) |-> EntryName(ls[i])]

\* value of a plain declaration  name = "version"
QuotedVersion(value) == Before(After(value, "\""), "\"")

OverrideEntries(text) == SectionLines(text, PATCH_HEADER)
DeclaredEntries(text) == SectionLines(text, DEPENDENCIES_HEADER)
OverrideNames(text) == Range(EntryNames(OverrideEntries(text)))
DeclaredNames(text) == Range(EntryNames(DeclaredEntries(text)))
HasOverrideSection(text) == \E i \in 1..Len(Lines(text)) : StartsWith(Lines(text)[i], "[patch")

Written(path) == \E f \in files : f[1] = path
FileContents(path) == (CHOOSE f \in files : f[1] = path)[2]
Manifests == {CONTRACT_TOML, TESTS_TOML}

RegistryNames == [i \in 1..Len(Registry) |-> Registry[i].name]

Overrides == Unwrap(ARGS).dimension_overrides
SelectionIs(tag) == IsSome(ARGS) /\ IsSome(Overrides) /\ Unwrap(Overrides).tag = tag
SelectionIsNone == IsSome(ARGS) /\ ~IsSome(Overrides)
\* The override block of this run, as PATCH_SECTION renders it once forced.
RenderedBlock == PATCH_SECTION(Overrides)

(***************************************************************************)
(* Properties.                                                             *)
(***************************************************************************)
OnlyLocalPath == IsSome(workspace_path) /\ ~IsSome(git_url) /\ ~IsSome(git_branch)
OnlyRemote == ~IsSome(workspace_path) /\ IsSome(git_url) /\ IsSome(git_branch)
AllAbsent == ~IsSome(workspace_path) /\ ~IsSome(git_url) /\ ~IsSome(git_branch)
DestinationNamed == Len(filtered_args(positionals)) = 1
NothingTouched == ~created /\ files = {} /\ calls = <<>>

\* C1: once the arguments are resolved, a command line with only the local path
\* yields WorkspacePath carrying that path, one with both remote fields and no local
\* path yields GitRepo carrying that url and that branch, and one with none of the
\* three yields None; and each of these shapes is resolved (no exit, no panic).
C1_OverrideResolution ==
    /\ (IsSome(ARGS) /\ OnlyLocalPath) =>
          Overrides = <<[tag |-> "WorkspacePath", path |-> workspace_path[1]]>>
    /\ (IsSome(ARGS) /\ OnlyRemote) =>
          Overrides = <<[tag |-> "GitRepo", url |-> git_url[1], branch |-> git_branch[1]]>>
    /\ (IsSome(ARGS) /\ AllAbsent) => Overrides = <<>>
    /\ (pc # "start" /\ DestinationNamed /\ (OnlyLocalPath \/ OnlyRemote \/ AllAbsent)) =>
          IsSome(ARGS)

C1_Witness ==
    /\ OnlyRemote
    /\ IsSome(ARGS)
    /\ Unwrap(Overrides).tag = "GitRepo"
    /\ Unwrap(Overrides).url # Unwrap(Overrides).branch

\* C2: a command line that sets the local path together with a remote field, or
\* exactly one of url and branch, never yields an Args value: the run ends in the
\* argument parser with its usage status, the match is never reached (no panic), and
\* nothing on the filesystem is touched.
InvalidCombination ==
    \/ IsSome(workspace_path) /\ (IsSome(git_url) \/ IsSome(git_branch))
    \/ IsSome(git_url) # IsSome(git_branch)

C2_MutualExclusivity ==
    InvalidCombination =>
        /\ ~IsSome(ARGS)
        /\ NothingTouched
        /\ pc \in {"start", "exited"}
        /\ pc = "exited" => exit_code = Some(CLAP_USAGE_CODE)

C2_Witness ==
    /\ InvalidCombination
    /\ DestinationNamed
    /\ IsSome(workspace_path) /\ IsSome(git_url) /\ IsSome(git_branch)
    /\ pc = "exited"

C4_NoOverrideSection ==
    SelectionIsNone =>
        /\ RenderedBlock = ""
        /\ \A m \in Manifests : Written(m) =>
              /\ ~HasOverrideSection(FileContents(m))
              /\ OverrideEntries(FileContents(m)) = <<>>

C4_Witness ==
    /\ SelectionIsNone
    /\ Written(CONTRACT_TOML)
    /\ Written(TESTS_TOML)

\* An override entry whose value is exactly  { path = "<root>/<something>" }.
RootedAt(line, root) ==
    /\ StartsWith(EntryValue(line), "{ path = \"" \o root \o "/")
    /\ EndsWith(EntryValue(line), "\" }")
    /\ ~Contains(line, "git = ")

\* C5 (as claimed): with a WorkspacePath selection, in each manifest written every
\* override entry is rooted at the path, and the names of the override section are
\* exactly the names of that manifest's dependency declarations (three in the contract
\* manifest, four in the tests manifest), one entry each.
C5_AsClaimed ==
    SelectionIs("WorkspacePath") =>
        \A m \in Manifests : Written(m) =>
            LET text == FileContents(m)
                entries == OverrideEntries(text)
            IN /\ \A i \in 1..Len(entries) : RootedAt(entries[i], Unwrap(Overrides).path)
               /\ OverrideNames(text) = DeclaredNames(text)
               /\ Len(entries) = Cardinality(DeclaredNames(text))
               /\ Cardinality(DeclaredNames(text)) = IF m = CONTRACT_TOML THEN 3 ELSE 4

\* C5: with a WorkspacePath selection, in each manifest written the override section
\* has one entry per dependency of the registry (four, whichever the manifest), every
\* entry rooted at the path; its names are the registry's names, which contain the
\* names the manifest declares: equal to them in the tests manifest (four), and in
\* the contract manifest (three) one more, dimension-engine-test-support.
C5_LocalPathOverride ==
    SelectionIs("WorkspacePath") =>
        /\ Unwrap(Overrides).path = Unwrap(workspace_path)
        /\ \A m \in Manifests : Written(m) =>
            LET text == FileContents(m)
                entries == OverrideEntries(text)
            IN /\ \A i \in 1..Len(entries) : RootedAt(entries[i], Unwrap(workspace_path))
               /\ Len(entries) = Len(Registry)
               /\ OverrideNames(text) = Range(RegistryNames)
               /\ Cardinality(OverrideNames(text)) = Len(entries)
               /\ DeclaredNames(text) \subseteq OverrideNames(text)
               /\ m = TESTS_TOML =>
                     /\ DeclaredNames(text) = OverrideNames(text)
                     /\ Cardinality(DeclaredNames(text)) = 4
               /\ m = CONTRACT_TOML =>
                     /\ OverrideNames(text) \ DeclaredNames(text)
                            = {"dimension-engine-test-support"}
                     /\ Cardinality(DeclaredNames(text)) = 3

C5_Witness ==
    /\ SelectionIs("WorkspacePath")
    /\ Written(CONTRACT_TOML)
    /\ Written(TESTS_TOML)
    /\ Len(OverrideEntries(FileContents(CONTRACT_TOML))) = 4

\* The url and the branch an override entry names.
GitOf(line) == Before(After(EntryValue(line), "git = \""), "\"")
BranchOf(line) == Before(After(EntryValue(line), "branch = \""), "\"")

\* C6: with a GitRepo selection of url u and branch b, the rendered override block
\* has one entry per registry dependency and every entry is exactly
\* name = { git = "u", branch = "b" }: it names u and b, and no path.
C6_RemoteBranchOverride ==
    SelectionIs("GitRepo") =>
        LET u == Unwrap(git_url)
            b == Unwrap(git_branch)
            block == Tail(Lines(RenderedBlock))
        IN /\ Len(block) = Len(Registry)
           /\ \A i \in 1..Len(block) :
                 /\ EntryValue(block[i])
                       = "{ git = \"" \o u \o "\", branch = \"" \o b \o "\" }"
                 /\ GitOf(block[i]) = u
                 /\ BranchOf(block[i]) = b
                 /\ ~Contains(block[i], "path")

C6_Witness ==
    /\ SelectionIs("GitRepo")
    /\ Written(CONTRACT_TOML)
    /\ Unwrap(git_url) # UrlPool[1]
    /\ Unwrap(git_branch) # BranchPool[1]
    /\ GitOf(Lines(RenderedBlock)[5]) = UrlPool[2]

\* The versions a manifest declares for a name, and those the registry holds for it.
DeclaredVersions(text, name) ==
    {QuotedVersion(EntryValue(l)) : l \in {e \in Range(DeclaredEntries(text)) : EntryName(e) = name}}
RegistryVersions(name) ==
    {Registry[i].version : i \in {j \in 1..Len(Registry) : Registry[j].name = name}}

\* C7: once both manifests are written, every name declared in both is declared in
\* each with one version, the single version the registry holds for that name.
C7_VersionConsistency ==
    (Written(CONTRACT_TOML) /\ Written(TESTS_TOML)) =>
        LET c == FileContents(CONTRACT_TOML)
            t == FileContents(TESTS_TOML)
        IN \A name \in DeclaredNames(c) \cap DeclaredNames(t) :
              /\ Cardinality(RegistryVersions(name)) = 1
              /\ DeclaredVersions(c, name) = RegistryVersions(name)
              /\ DeclaredVersions(t, name) = RegistryVersions(name)

C7_Witness ==
    /\ Written(CONTRACT_TOML)
    /\ Written(TESTS_TOML)
    /\ IsSome(ARGS) /\ IsSome(Overrides)
    /\ Cardinality(DeclaredNames(FileContents(CONTRACT_TOML))
                     \cap DeclaredNames(FileContents(TESTS_TOML))) = 3
    /\ DeclaredVersions(FileContents(TESTS_TOML), "dimension-types") = {"1.4.6"}

\* The filesystem calls of a whole run, in program order.
ProgramCalls ==
    << [op |-> "create_dir_all", path |-> ""],
       [op |-> "write_file", path |-> CONTRACT_TOML],
       [op |-> "write_file", path |-> TESTS_TOML],
       [op |-> "write_file", path |-> FILENAME],
       [op |-> "write_file", path |-> MAKEFILE],
       [op |-> "write_file", path |-> TRAVIS_YML] >>

WritePositions == {"contract_package", "tests_package", "rust_toolchain", "makefile",
                   "travis_yml"}

\* C8: every write_file call is made after a create_dir_all call that succeeded; main
\* is at a writing step only with the directory created, and a file exists only in a
\* created directory.
C8_DirectoryBeforeWrites ==
    /\ \A i \in 1..Len(calls) :
          calls[i].op = "write_file" =>
              \E j \in 1..(i - 1) : calls[j].op = "create_dir_all" /\ calls[j].ok
    /\ pc \in WritePositions => created
    /\ files # {} => created

C8_Witness ==
    /\ Len(calls) = Len(ProgramCalls)
    /\ \A i \in 1..Len(calls) : calls[i].ok
    /\ Cardinality(files) = 5

Completed ==
    /\ exit_code = Some(EXIT_SUCCESS)
    /\ Len(calls) = Len(ProgramCalls)
    /\ \A i \in 1..Len(calls) : calls[i].ok
AbortedAtFailedCall ==
    /\ exit_code = Some(FAILURE_EXIT_CODE)
    /\ Len(calls) >= 1
    /\ ~calls[Len(calls)].ok
    /\ \A i \in 1..(Len(calls) - 1) : calls[i].ok
AbortedBeforeAnyCall ==
    /\ calls = <<>>
    /\ \/ ~IsSome(ARGS) /\ exit_code = Some(CLAP_USAGE_CODE)
       \/ IsSome(ARGS) /\ pre_exists /\ exit_code = Some(FAILURE_EXIT_CODE)

\* No retry: the calls made are a prefix of the program's calls, each made once.
NoRetry ==
    /\ Len(calls) <= Len(ProgramCalls)
    /\ \A i \in 1..Len(calls) :
          calls[i].op = ProgramCalls[i].op /\ calls[i].path = ProgramCalls[i].path
\* A failed call is the last call, and the process has exited with the failure code.
FailureIsLast ==
    \A i \in 1..Len(calls) :
        ~calls[i].ok => /\ i = Len(calls)
                        /\ pc = "exited"
                        /\ exit_code = Some(FAILURE_EXIT_CODE)
\* No rollback: what a successful call made is still there.
NoRollback ==
    \A i \in 1..Len(calls) :
        calls[i].ok => IF calls[i].op = "create_dir_all" THEN created
                       ELSE Written(calls[i].path)

\* C9 (as claimed): every run that has ended either completed all its writes or
\* aborted at the first failing directory creation or file write; a failed call is
\* the last one, none is retried, and nothing written is rolled back.  (Stated for
\* the runs whose command line the parser accepted, which are among "every run".)
C9_AsClaimed ==
    /\ (pc = "exited" /\ IsSome(ARGS)) => (Completed \/ AbortedAtFailedCall)
    /\ FailureIsLast
    /\ NoRetry
    /\ NoRollback

\* C9: every run that has ended either completed all its writes, or aborted at the
\* first failing directory creation or file write, or aborted before any filesystem
\* call (command line rejected by the parser, or destination already there); a failed
\* call is the last one, none is retried, and nothing written is rolled back.
C9_FirstFailureAbort ==
    /\ pc = "exited" => (Completed \/ AbortedAtFailedCall \/ AbortedBeforeAnyCall)
    /\ pc # "exited" => exit_code = NoneOpt
    /\ FailureIsLast
    /\ NoRetry
    /\ NoRollback

C9_Witness ==
    /\ pc = "exited"
    /\ AbortedAtFailedCall
    /\ Len(calls) = 4
    /\ Written(CONTRACT_TOML) /\ Written(TESTS_TOML)
    /\ ~Written(FILENAME)

\* One header line, then one declaration line per registry dependency, each
\* terminated, and nothing else.
WellFormedBlock ==
    LET ls == Lines(RenderedBlock) IN
    /\ Len(ls) = 1 + Len(Registry)
    /\ ls[1] = PATCH_HEADER
    /\ EndsWith(RenderedBlock, "\n")
    /\ \A i \in 2..Len(ls) : ~StartsWith(ls[i], "[") /\ Contains(ls[i], " = { ")
    /\ Range(EntryNames(Tail(ls))) = Range(RegistryNames)

\* C10 (as claimed): for a selection other than None the rendered block is one header
\* line and one declaration line per dependency, in the order of the registry.
C10_AsClaimed ==
    (IsSome(ARGS) /\ IsSome(Overrides)) =>
        /\ WellFormedBlock
        /\ EntryNames(Tail(Lines(RenderedBlock))) = RegistryNames

\* C10: for a selection other than None the rendered block is one header line and one
\* declaration line per dependency of the registry, in the fixed order
\* dimension-contract, dimension-engine-test-support, dimension-execution-engine,
\* dimension-types (the registry's descriptors 1, 3, 4, 2), the same for both kinds
\* of selection.
C10_BlockLayout ==
    (IsSome(ARGS) /\ IsSome(Overrides)) =>
        /\ WellFormedBlock
        /\ EntryNames(Tail(Lines(RenderedBlock)))
              = << "dimension-contract", "dimension-engine-test-support",
                   "dimension-execution-engine", "dimension-types" >>
        /\ EntryNames(Tail(Lines(RenderedBlock)))
              = << Registry[1].name, Registry[3].name, Registry[4].name, Registry[2].name >>

C10_Witness ==
    /\ SelectionIs("GitRepo")
    /\ pc = "exited"
    /\ Completed
    /\ Len(Lines(RenderedBlock)) = 5

====
